---- MODULE Spec2Model ----
(***************************************************************************)
(* A model of src/App.js: one React Native screen with a joke fetcher      *)
(* (handleFetchJoke) and a notes store (loadNotes, handleAddNote,          *)
(* saveNotes, handleClearNotes) persisted in one AsyncStorage slot.        *)
(*                                                                         *)
(* Texts (the input field, the slot's blob) are sequences of one-character *)
(* strings.  JavaScript values are records [t, v]: a string is             *)
(* [t |-> "str", v |-> its characters], a number [t |-> "num", v |-> its   *)
(* digits], an array [t |-> "arr", v |-> the sequence of its elements].    *)
(*                                                                         *)
(* Handlers run to their first await in one step (the presentation thread  *)
(* is single and cooperative); what follows an await is a later step.  A   *)
(* handler reads the state of the latest render, and React renders after   *)
(* every state change before it handles the next event.                    *)
(* AsyncStorage and fetch promise no order between operations in flight,   *)
(* so any request in flight may be the next to take effect or settle.      *)
(***************************************************************************)
EXTENDS Integers, Sequences, FiniteSets, TLC

(***************************************************************************)
(* Bounds of the model.                                                    *)
(***************************************************************************)
\* handler invocations that issue a storage write (add, clear) in one run
MaxOps == 2
\* fetch requests in flight at once
MaxFetches == 2

(***************************************************************************)
(* Texts.                                                                  *)
(***************************************************************************)
QUOTE == "\""
BACKSLASH == "\\"
SPACE == " "

\* String.prototype.trim: strips the whitespace at both ends
RECURSIVE TrimStart(_)
TrimStart(s) ==
    IF s # <<>> /\ Head(s) = SPACE THEN TrimStart(Tail(s)) ELSE s

RECURSIVE TrimEnd(_)
TrimEnd(s) ==
    IF s # <<>> /\ s[Len(s)] = SPACE THEN TrimEnd(SubSeq(s, 1, Len(s) - 1)) ELSE s

\* a slip: trimStart in the place of trim
trimStartOnly(s) == TrimStart(s)

trim(s) == TrimEnd(TrimStart(s))

(***************************************************************************)
(* JavaScript values and JSON.                                             *)
(***************************************************************************)
MkStr(s) == [t |-> "str", v |-> s]
MkNum(s) == [t |-> "num", v |-> s]
MkArr(a) == [t |-> "arr", v |-> a]

\* the escapes JSON.stringify writes inside a string literal
RECURSIVE Escape(_)
Escape(s) ==
    IF s = <<>> THEN <<>>
    ELSE IF Head(s) = QUOTE \/ Head(s) = BACKSLASH
         THEN <<BACKSLASH, Head(s)>> \o Escape(Tail(s))
         ELSE <<Head(s)>> \o Escape(Tail(s))

RECURSIVE Stringify(_)
RECURSIVE StringifyElems(_)
Stringify(x) ==
    IF x.t = "str" THEN <<QUOTE>> \o Escape(x.v) \o <<QUOTE>>
    ELSE IF x.t = "num" THEN x.v
    ELSE <<"[">> \o StringifyElems(x.v) \o <<"]">>

StringifyElems(a) ==
    IF a = <<>> THEN <<>>
    ELSE IF Len(a) = 1 THEN Stringify(a[1])
    ELSE Stringify(a[1]) \o <<",">> \o StringifyElems(Tail(a))

\* JSON.stringify(updatedNotes)
JSONstringify(a) == Stringify(MkArr(a))

\* A parse step answers [ok, val, rest]: the value read and the text left.
ParseFail == [ok |-> FALSE, val |-> MkNum(<<>>), rest |-> <<>>]
ParseOk(x, rest) == [ok |-> TRUE, val |-> x, rest |-> rest]

SkipWs(s) == TrimStart(s)

\* the rest of a string literal, after its opening quote
RECURSIVE ParseStringBody(_, _)
ParseStringBody(s, acc) ==
    IF s = <<>> THEN ParseFail
    ELSE IF Head(s) = QUOTE THEN ParseOk(MkStr(acc), Tail(s))
    ELSE IF Head(s) = BACKSLASH
         THEN IF Len(s) >= 2 /\ (s[2] = QUOTE \/ s[2] = BACKSLASH)
              THEN ParseStringBody(SubSeq(s, 3, Len(s)), Append(acc, s[2]))
              ELSE ParseFail
    ELSE ParseStringBody(Tail(s), Append(acc, Head(s)))

\* a run of digits
RECURSIVE ParseDigits(_, _)
ParseDigits(s, acc) ==
    IF s # <<>> /\ Head(s) = "1"
    THEN ParseDigits(Tail(s), Append(acc, Head(s)))
    ELSE ParseOk(MkNum(acc), s)

RECURSIVE ParseValue(_)
RECURSIVE ParseElems(_, _)
ParseValue(s0) ==
    LET s == SkipWs(s0) IN
    IF s = <<>> THEN ParseFail
    ELSE IF Head(s) = QUOTE THEN ParseStringBody(Tail(s), <<>>)
    ELSE IF Head(s) = "1" THEN ParseDigits(s, <<>>)
    ELSE IF Head(s) = "["
         THEN LET r == SkipWs(Tail(s)) IN
              IF r # <<>> /\ Head(r) = "]"
              THEN ParseOk(MkArr(<<>>), Tail(r))
              ELSE ParseElems(r, <<>>)
    ELSE ParseFail

\* the elements of a non-empty array, up to its closing bracket
ParseElems(s, acc) ==
    LET e == ParseValue(s) IN
    IF ~e.ok THEN ParseFail
    ELSE LET r == SkipWs(e.rest) IN
         IF r = <<>> THEN ParseFail
         ELSE IF Head(r) = "]" THEN ParseOk(MkArr(Append(acc, e.val)), Tail(r))
         ELSE IF Head(r) = "," THEN ParseElems(Tail(r), Append(acc, e.val))
         ELSE ParseFail

\* JSON.parse(stored): [ok |-> FALSE] stands for the SyntaxError it throws
JSONparse(s) ==
    LET r == ParseValue(s) IN
    IF r.ok /\ SkipWs(r.rest) = <<>> THEN ParseOk(r.val, <<>>) ELSE ParseFail

\* Array.isArray(parsed)
IsArray(x) == x.t = "arr"

(***************************************************************************)
(* Inputs.                                                                 *)
(***************************************************************************)
\* what the user may type into the input field
InputTexts ==
    { <<>>, <<SPACE>>, <<"a">>, <<SPACE, "a", SPACE>>, <<QUOTE>> }

\* the slot: absent, or present with a text blob
Absent == [present |-> FALSE, text |-> <<>>]
Present(s) == [present |-> TRUE, text |-> s]

\* what the slot may hold when the screen mounts
InitialSlots ==
    { Absent,
      Present(<<>>),
      Present(<<"[", "]">>),
      Present(<<"[", QUOTE, "a", QUOTE, "]">>),
      Present(<<"[", QUOTE, SPACE, "a", QUOTE, ",", "1", "]">>),
      Present(<<"1">>),
      Present(<<QUOTE, "a", QUOTE>>),
      Present(<<"[", QUOTE, "a", QUOTE>>) }

\* what response.json() may resolve with
JokeData == {"J1", "J2"}
Null == "null"

(***************************************************************************)
(* The messages of the screen.                                             *)
(***************************************************************************)
NoError == ""
JokeErrorMsg == "Could not fetch a joke. Please try again."
CorruptedMsg == "Saved notes are corrupted"
LoadErrorMsg == "Failed to load notes"
SaveErrorMsg == "Failed to save notes"
ClearErrorMsg == "Failed to clear notes"

(***************************************************************************)
(* State.                                                                  *)
(***************************************************************************)
VARIABLES
    joke, jokeError, jokeLoading,   \* useState, lines 18-20
    noteInput, notes, notesError,   \* useState, lines 22-24
    notesLoading,                   \* useState, line 25
    slot,                           \* AsyncStorage's entry NOTES_KEY
    loadPc, stored,                 \* loadNotes: where it is, what getItem gave
    writes,                         \* setItem / removeItem calls in flight
    fetches,                        \* handleFetchJoke calls in flight
    ops,                            \* history: add and clear invocations so far
    lastAdd,                        \* history: the latest add's number, or 0
    okClear,                        \* history: the latest clear whose removal succeeded, or 0
    failed,                         \* history: a storage operation failed, or load found no list
    slot0,                          \* history: what the slot held at mount
    cleared,                        \* history: clear has been invoked
    newestFailed,                   \* history: the latest notes action's operation failed
    last                            \* history: the step just taken

jokeVars == <<joke, jokeError, jokeLoading, fetches>>
noteVars == <<noteInput, notes, notesError, notesLoading, slot, loadPc, stored, writes>>
histVars == <<ops, lastAdd, okClear, failed, slot0, cleared, newestFailed>>
vars == <<jokeVars, noteVars, histVars, last>>

NoWrite == [op |-> "none", text |-> <<>>, id |-> 0, loaded |-> FALSE, note |-> MkStr(<<>>)]
NoFetch == [stage |-> "none", pre |-> Null, dirty |-> FALSE]
Step(name) == [step |-> name, w |-> NoWrite, f |-> NoFetch]
WriteStep(name, w) == [step |-> name, w |-> w, f |-> NoFetch]
FetchStep(name, f) == [step |-> name, w |-> NoWrite, f |-> f]

RemoveAt(q, i) == SubSeq(q, 1, i - 1) \o SubSeq(q, i + 1, Len(q))

Init ==
    /\ joke = Null
    /\ jokeError = NoError
    /\ jokeLoading = FALSE
    /\ noteInput = <<>>
    /\ notes = <<>>
    /\ notesError = NoError
    /\ notesLoading = TRUE
    /\ slot \in InitialSlots
    /\ loadPc = "getItem"
    /\ stored = [ok |-> TRUE, val |-> Absent]
    /\ writes = <<>>
    /\ fetches = <<>>
    /\ ops = 0
    /\ lastAdd = 0
    /\ okClear = 0
    /\ failed = FALSE
    /\ slot0 = slot
    /\ cleared = FALSE
    /\ newestFailed = FALSE
    /\ last = Step("mount")

(***************************************************************************)
(* Notes store: loadNotes (lines 27-48).                                   *)
(***************************************************************************)
\* `if (stored)`: null and the empty string are falsy
Truthy(st) == st.present /\ st.text # <<>>

\* what the body of loadNotes' try block does with the value getItem gave:
\* "absent" (nothing to do), "array", "corrupted" or "throws"
LoadCase(st) ==
    IF ~st.ok THEN "throws"
    ELSE IF ~Truthy(st.val) THEN "absent"
    ELSE LET parsed == JSONparse(st.val.text) IN
         IF ~parsed.ok THEN "throws"
         ELSE IF IsArray(parsed.val) THEN "array"
         ELSE "corrupted"

\* the list after loadNotes resumes, from the list `cur` it finds
LoadedNotes(st, cur) ==
    CASE LoadCase(st) = "array" -> JSONparse(st.val.text).val.v
      [] LoadCase(st) = "corrupted" -> <<>>
      [] OTHER -> cur

\* a slip: one message for every failure of load
LoadedErrorOneMessage(st, cur) ==
    IF LoadCase(st) \in {"corrupted", "throws"} THEN LoadErrorMsg ELSE cur

\* the notes error after loadNotes resumes
LoadedError(st, cur) ==
    CASE LoadCase(st) = "corrupted" -> CorruptedMsg
      [] LoadCase(st) = "throws" -> LoadErrorMsg
      [] OTHER -> cur

\* a slip: no finally block
NotesLoadingLeft == notesLoading

\* the finally block of loadNotes (lines 42-44)
NotesLoadingAfterFinally == FALSE

\* AsyncStorage.getItem(NOTES_KEY) settles: it resolves with the slot's
\* content as it is now, or rejects
GetItemSettles ==
    /\ loadPc = "getItem"
    /\ \E ok \in BOOLEAN :
         stored' = [ok |-> ok, val |-> IF ok THEN slot ELSE Absent]
    /\ loadPc' = "resume"
    /\ last' = Step("getItem")
    /\ UNCHANGED <<jokeVars, noteInput, notes, notesError, notesLoading, slot,
                   writes, histVars>>

\* loadNotes resumes after its await and runs to its end
LoadNotesResumes ==
    /\ loadPc = "resume"
    /\ notes' = LoadedNotes(stored, notes)
    /\ notesError' = LoadedError(stored, notesError)
    /\ notesLoading' = NotesLoadingAfterFinally
    /\ loadPc' = "done"
    /\ failed' = (failed \/ LoadCase(stored) \notin {"absent", "array"}
                         \/ (stored.val.present /\ ~Truthy(stored.val)))
    /\ newestFailed' = (IF ops = 0
                        THEN LoadCase(stored) \in {"throws", "corrupted"}
                        ELSE newestFailed)
    /\ last' = Step("loaded")
    /\ UNCHANGED <<jokeVars, noteInput, slot, stored, writes, ops, lastAdd, okClear,
                   slot0, cleared>>

(***************************************************************************)
(* Notes store: the input field (line 131).                                *)
(***************************************************************************)
SetNoteInput(text) ==
    /\ noteInput' = text
    /\ last' = Step("type")
    /\ UNCHANGED <<jokeVars, notes, notesError, notesLoading, slot, loadPc,
                   stored, writes, histVars>>

(***************************************************************************)
(* Notes store: handleAddNote (lines 75-87), up to its await.              *)
(***************************************************************************)
\* a slip: the emptiness test made on the text as typed
IsBlankUntrimmed(text) == text = <<>>

\* lines 76-77: `!noteInput.trim()`
IsBlank(text) == trim(text) = <<>>

\* a slip: the new note put first
UpdatedNotesPrepended(ns, trimmed) == <<MkStr(trimmed)>> \o ns

\* [...notes, trimmed]
UpdatedNotes(ns, trimmed) == Append(ns, MkStr(trimmed))

\* the setItem call saveNotes issues
SetItemCall(updatedNotes, trimmed) ==
    [op |-> "setItem", text |-> JSONstringify(updatedNotes), id |-> ops + 1,
     loaded |-> (loadPc = "done"), note |-> MkStr(trimmed)]

HandleAddNote ==
    LET trimmed == trim(noteInput)
        updatedNotes == UpdatedNotes(notes, trimmed)
    IN  /\ last' = Step("add")
        /\ IF IsBlank(noteInput)
           THEN UNCHANGED <<jokeVars, noteVars, histVars>>
           ELSE /\ ops < MaxOps
                /\ notes' = updatedNotes
                /\ noteInput' = <<>>
                /\ notesError' = NoError
                /\ writes' = Append(writes, SetItemCall(updatedNotes, trimmed))
                /\ ops' = ops + 1
                /\ lastAdd' = ops + 1
                /\ newestFailed' = FALSE
                /\ UNCHANGED <<jokeVars, notesLoading, slot, loadPc, stored,
                               okClear, failed, slot0, cleared>>

(***************************************************************************)
(* Notes store: saveNotes (lines 67-73), after its await.                  *)
(***************************************************************************)
\* a slip: the catch block swallows the failure
SaveErrorSwallowed == notesError

\* the notes error once the catch block of saveNotes has run
SaveErrorAfterCatch == SaveErrorMsg

\* the slot once a write has taken effect
SlotAfter(w) == IF w.op = "setItem" THEN Present(w.text) ELSE Absent

\* the setItem call in flight at place i resolves (the slot holds its text)
\* or rejects (the slot is as it was, the catch block runs)
SetItemSettles(i) ==
    /\ writes[i].op = "setItem"
    /\ writes' = RemoveAt(writes, i)
    /\ \/ /\ slot' = SlotAfter(writes[i])
          /\ last' = WriteStep("saved", writes[i])
          /\ UNCHANGED <<notesError, failed, newestFailed>>
       \/ /\ notesError' = SaveErrorAfterCatch
          /\ failed' = TRUE
          /\ newestFailed' = (newestFailed \/ writes[i].id = ops)
          /\ last' = WriteStep("saveFailed", writes[i])
          /\ UNCHANGED slot
    /\ UNCHANGED <<jokeVars, noteInput, notes, notesLoading, loadPc, stored,
                   ops, lastAdd, okClear, slot0, cleared>>

(***************************************************************************)
(* Notes store: handleClearNotes (lines 89-98).                            *)
(***************************************************************************)
\* the argument of setNotes in handleClearNotes
ClearedNotes == <<>>

RemoveItemCall ==
    [op |-> "removeItem", text |-> <<>>, id |-> ops + 1,
     loaded |-> (loadPc = "done"), note |-> MkStr(<<>>)]

\* a slip: a clear that wipes the whole screen, the joke included
HandleClearNotesWipesJoke ==
    /\ ops < MaxOps
    /\ notes' = ClearedNotes
    /\ notesError' = NoError
    /\ joke' = Null
    /\ writes' = Append(writes, RemoveItemCall)
    /\ ops' = ops + 1
    /\ cleared' = TRUE
    /\ newestFailed' = FALSE
    /\ last' = Step("clear")
    /\ UNCHANGED <<jokeError, jokeLoading, fetches, noteInput, notesLoading, slot,
                   loadPc, stored, lastAdd, okClear, failed, slot0>>

HandleClearNotes ==
    /\ ops < MaxOps
    /\ notes' = ClearedNotes
    /\ notesError' = NoError
    /\ writes' = Append(writes, RemoveItemCall)
    /\ ops' = ops + 1
    /\ cleared' = TRUE
    /\ newestFailed' = FALSE
    /\ last' = Step("clear")
    /\ UNCHANGED <<jokeVars, noteInput, notesLoading, slot, loadPc, stored,
                   lastAdd, okClear, failed, slot0>>

\* the removeItem call in flight at place i resolves (the slot is gone) or
\* rejects (the slot is as it was, the catch block runs)
RemoveItemSettles(i) ==
    /\ writes[i].op = "removeItem"
    /\ writes' = RemoveAt(writes, i)
    /\ \/ /\ slot' = SlotAfter(writes[i])
          /\ okClear' = (IF writes[i].id > okClear THEN writes[i].id ELSE okClear)
          /\ last' = WriteStep("removed", writes[i])
          /\ UNCHANGED <<notesError, failed, newestFailed>>
       \/ /\ notesError' = ClearErrorMsg
          /\ failed' = TRUE
          /\ newestFailed' = (newestFailed \/ writes[i].id = ops)
          /\ last' = WriteStep("removeFailed", writes[i])
          /\ UNCHANGED <<slot, okClear>>
    /\ UNCHANGED <<jokeVars, noteInput, notes, notesLoading, loadPc, stored,
                   ops, lastAdd, slot0, cleared>>

(***************************************************************************)
(* Notes store: what the screen shows (lines 142-154).                     *)
(***************************************************************************)
\* a slip: the error line left out of the ternary
NotesViewWithoutErrorLine == IF notesLoading THEN "spinner" ELSE "list"

\* notesLoading ? spinner : notesError ? error line : FlatList
NotesView ==
    IF notesLoading THEN "spinner"
    ELSE IF notesError # NoError THEN "error"
    ELSE "list"

NotesSpinnerShown == NotesView = "spinner"
NotesErrorShown == NotesView = "error"
NotesListShown == NotesView = "list"

\* the rows of the FlatList (data={notes}), none when it is not rendered
NotesDisplayed == IF NotesListShown THEN notes ELSE <<>>

\* ListEmptyComponent
NoNotesYetShown == NotesListShown /\ notes = <<>>

NextNotes ==
    \/ GetItemSettles
    \/ LoadNotesResumes
    \/ \E text \in InputTexts : SetNoteInput(text)
    \/ HandleAddNote
    \/ \E i \in 1..Len(writes) : SetItemSettles(i)
    \/ HandleClearNotes
    \/ \E i \in 1..Len(writes) : RemoveItemSettles(i)

SpecNotes == Init /\ [][NextNotes]_vars

(***************************************************************************)
(* Joke fetcher: handleFetchJoke (lines 50-65).                            *)
(***************************************************************************)
\* the request handleFetchJoke issues; pre and dirty are history: the joke
\* held when it was issued, and whether another request has set the joke since
FetchCall == [stage |-> "fetch", pre |-> joke, dirty |-> FALSE]

\* a slip: the error of the request before is left standing
HandleFetchJokeKeepsError ==
    /\ Len(fetches) < MaxFetches
    /\ jokeLoading' = TRUE
    /\ fetches' = Append(fetches, FetchCall)
    /\ last' = FetchStep("fetch", FetchCall)
    /\ UNCHANGED <<joke, jokeError, noteVars, histVars>>

\* lines 51-54: up to `await fetch(JOKE_API_URL)`
HandleFetchJoke ==
    /\ Len(fetches) < MaxFetches
    /\ jokeError' = NoError
    /\ jokeLoading' = TRUE
    /\ fetches' = Append(fetches, FetchCall)
    /\ last' = FetchStep("fetch", FetchCall)
    /\ UNCHANGED <<joke, noteVars, histVars>>

\* slips: the catch block drops the joke; no finally block
JokeDroppedOnCatch == Null
JokeLoadingLeft == jokeLoading

\* the catch block and the finally block (lines 60-64)
JokeAfterCatch == joke
JokeErrorAfterCatch == JokeErrorMsg
JokeLoadingAfterFinally == FALSE

FetchFails(i, name) ==
    /\ jokeError' = JokeErrorAfterCatch
    /\ jokeLoading' = JokeLoadingAfterFinally
    /\ fetches' = RemoveAt(fetches, i)
    /\ joke' = JokeAfterCatch
    /\ last' = FetchStep(name, fetches[i])
    /\ UNCHANGED <<noteVars, histVars>>

\* every other request in flight has now seen the joke set by another
MarkDirty(q) == [k \in 1..Len(q) |-> [q[k] EXCEPT !.dirty = TRUE]]

\* fetch() settles for the request at place i: it resolves with an ok
\* response (line 58 awaits its body), resolves with a response that is not
\* ok (line 56 throws), or rejects
FetchSettles(i) ==
    /\ fetches[i].stage = "fetch"
    /\ \/ /\ fetches' = [fetches EXCEPT ![i].stage = "json"]
          /\ last' = FetchStep("response", fetches[i])
          /\ UNCHANGED <<joke, jokeError, jokeLoading, noteVars, histVars>>
       \/ FetchFails(i, "notOk")
       \/ FetchFails(i, "rejected")

\* response.json() settles for the request at place i: it resolves with
\* the data (lines 59, 63), or rejects
JsonSettles(i) ==
    /\ fetches[i].stage = "json"
    /\ \/ /\ \E data \in JokeData : joke' = data
          /\ jokeLoading' = JokeLoadingAfterFinally
          /\ fetches' = MarkDirty(RemoveAt(fetches, i))
          /\ last' = FetchStep("joke", fetches[i])
          /\ UNCHANGED <<jokeError, noteVars, histVars>>
       \/ FetchFails(i, "badBody")

\* the render rules of the joke section (lines 116-123)
JokeSpinnerShown == jokeLoading
JokeErrorShown == jokeError # NoError
JokeCardShown == joke # Null /\ ~jokeLoading

NextJoke ==
    \/ HandleFetchJoke
    \/ \E i \in 1..Len(fetches) : FetchSettles(i)
    \/ \E i \in 1..Len(fetches) : JsonSettles(i)

SpecJoke == Init /\ [][NextJoke]_vars

\* every fetch() and every response.json() in flight settles in the end
SpecJokeFair ==
    /\ SpecJoke
    /\ WF_vars(\E i \in 1..Len(fetches) : FetchSettles(i))
    /\ WF_vars(\E i \in 1..Len(fetches) : JsonSettles(i))

Next == NextNotes \/ NextJoke

Spec == Init /\ [][Next]_vars

\* The whole screen, joke fetcher and notes store side by side, on a small
\* sample: one slot of each kind at mount, one blank and one non-blank text
\* to type, and a shared budget of taps (the user starts a note action or a
\* joke request only while the note actions started so far plus the requests
\* in flight stay within MaxOps). Every step is a step of Next.
AppSlots == { Absent, Present(<<"[", QUOTE, "a", QUOTE, "]">>), Present(<<"1">>) }
AppTexts == { <<SPACE>>, <<SPACE, "a", SPACE>> }

InitApp == Init /\ slot \in AppSlots

TapBudget == ops + Len(fetches) <= MaxOps

NextApp ==
    \/ GetItemSettles
    \/ LoadNotesResumes
    \/ \E text \in AppTexts : SetNoteInput(text)
    \/ HandleAddNote /\ TapBudget'
    \/ \E i \in 1..Len(writes) : SetItemSettles(i)
    \/ HandleClearNotes /\ TapBudget'
    \/ \E i \in 1..Len(writes) : RemoveItemSettles(i)
    \/ HandleFetchJoke /\ TapBudget'
    \/ \E i \in 1..Len(fetches) : FetchSettles(i)
    \/ \E i \in 1..Len(fetches) : JsonSettles(i)

SpecApp == InitApp /\ [][NextApp]_vars

(***************************************************************************)
(* Properties.                                                             *)
(***************************************************************************)
Last(q) == q[Len(q)]

\* every storage operation of the notes store has settled
NotesQuiet == loadPc = "done" /\ writes = <<>>

\* C1: an invocation of add whose input is not empty once trimmed leaves
\* the list as it was with one element, the trimmed text, appended at its
\* end, from every state (load pending or not, error set or not).
C1_AddAppendsTrimmed ==
    [][ (last'.step = "add" /\ trim(noteInput) # <<>>)
            => notes' = Append(notes, MkStr(trim(noteInput))) ]_vars

\* C1's case: an add made while load is pending, onto a list that held a
\* note already, from a text with whitespace around it.
C1_Witness ==
    /\ last.step = "add"
    /\ notesLoading
    /\ Len(notes) = 2
    /\ notes[1] = MkStr(<<QUOTE>>)
    /\ notes[2] = MkStr(<<"a">>)
    /\ Len(writes) = 2
    /\ Last(writes).note = MkStr(<<"a">>)

\* C2: an invocation of add whose input is empty or only whitespace
\* changes nothing: not the list, the input field, the notes error or the
\* slot, and no storage write is issued.
C2_BlankAddIsNoOp ==
    [][ (last'.step = "add" /\ trim(noteInput) = <<>>)
            => UNCHANGED <<notes, noteInput, notesError, slot, writes>> ]_vars

\* C2's case: add has just been invoked on a whitespace-only input, with
\* an error set and a note in the list.
C2_Witness ==
    /\ last.step = "add"
    /\ noteInput = <<SPACE>>
    /\ notesError # NoError
    /\ notes # <<>>

\* C3: clear leaves the list empty, from any list and any error, and the
\* list is still empty when the removal clear issued settles (resolved or
\* rejected) with no add invoked since that clear, load pending or not.
C3_ClearLeavesListEmpty ==
    /\ last.step = "clear" => notes = <<>>
    /\ (last.step \in {"removed", "removeFailed"} /\ lastAdd < last.w.id)
           => notes = <<>>

\* C4: once a clear's removal has succeeded and no add has been invoked
\* since that clear, the slot is absent when every storage operation has
\* settled, a save of an earlier add in flight at the clear included.
C4_SlotAbsentAfterClear ==
    (okClear > lastAdd /\ NotesQuiet) => slot = Absent

\* C5 as claimed: when load settles with no add or clear invoked before,
\* the busy flag is false and the slot decides the rest: absent, an empty
\* list and no error; a JSON array, that array and no error; JSON that is
\* no array, an empty list and the corrupted error; a failed read or
\* content that does not parse, an empty list and the load error.
C5_LoadOutcomeAsClaimed ==
    (last.step = "loaded" /\ ops = 0) =>
        /\ ~notesLoading
        /\ IF ~stored.ok
           THEN notes = <<>> /\ notesError = LoadErrorMsg
           ELSE IF ~slot.present
           THEN notes = <<>> /\ notesError = NoError
           ELSE IF ~JSONparse(slot.text).ok
           THEN notes = <<>> /\ notesError = LoadErrorMsg
           ELSE IF JSONparse(slot.text).val.t = "arr"
           THEN notes = JSONparse(slot.text).val.v /\ notesError = NoError
           ELSE notes = <<>> /\ notesError = CorruptedMsg

\* C5, amended: the same, but a slot that holds the empty text counts as
\* absent (an empty list and no error), and only content that is not
\* empty and does not parse gives the load error.
C5_LoadOutcome ==
    (last.step = "loaded" /\ ops = 0) =>
        /\ ~notesLoading
        /\ IF ~stored.ok
           THEN notes = <<>> /\ notesError = LoadErrorMsg
           ELSE IF ~slot.present \/ slot.text = <<>>
           THEN notes = <<>> /\ notesError = NoError
           ELSE IF ~JSONparse(slot.text).ok
           THEN notes = <<>> /\ notesError = LoadErrorMsg
           ELSE IF JSONparse(slot.text).val.t = "arr"
           THEN notes = JSONparse(slot.text).val.v /\ notesError = NoError
           ELSE notes = <<>> /\ notesError = CorruptedMsg

\* C5's case: load has just settled on content that is not empty and does
\* not parse, nothing else having been invoked.
C5_Witness ==
    /\ last.step = "loaded"
    /\ ops = 0
    /\ stored.ok
    /\ slot.present /\ slot.text # <<>> /\ ~JSONparse(slot.text).ok
    /\ notesError = LoadErrorMsg
    /\ ~notesLoading

\* the list the slot decodes to; the absent slot counts as the empty list
SlotDecodes == ~slot.present \/ (JSONparse(slot.text).ok /\ JSONparse(slot.text).val.t = "arr")
SlotList == IF slot.present THEN JSONparse(slot.text).val.v ELSE <<>>

\* C6: when no storage operation has failed (and load found a list or no
\* slot) and every storage operation has settled, in whatever order, the
\* slot decodes to the list in memory, in the same order.
C6_ListAndSlotInSync ==
    (~failed /\ NotesQuiet) => (SlotDecodes /\ SlotList = notes)

\* no add, clear or completion of load since the write w was issued
Undisturbed(w) == w.id = ops /\ w.loaded = (loadPc = "done")

\* C7: when the write issued by add fails, the notes error becomes
\* 'Failed to save notes', and handling the failure changes neither the
\* list nor the slot: the appended note is still the last element (nothing
\* else having changed the list since the add).
C7_SaveFailureKeepsAppend ==
    [][ last'.step = "saveFailed" =>
            /\ notesError' = "Failed to save notes"
            /\ notes' = notes
            /\ slot' = slot
            /\ Undisturbed(last'.w) =>
                    (notes' # <<>> /\ Last(notes') = last'.w.note) ]_vars

\* C7's case: a save has just failed, the note it appended is still the
\* last of the list, and the slot holds what it held.
C7_Witness ==
    /\ last.step = "saveFailed"
    /\ Len(notes) = 2
    /\ Last(notes) = last.w.note
    /\ notesError = SaveErrorMsg
    /\ slot = Present(JSONstringify(<<notes[1]>>))

\* C8: whenever a joke error is present the joke card is not rendered,
\* in every reachable state, a failed fetch after a successful one included.
C8_ErrorHidesJoke == JokeErrorShown => ~JokeCardShown

FetchFailureSteps == {"notOk", "rejected", "badBody"}

\* C9: a fetchJoke invocation that fails (a status that is not a success,
\* a transport failure, a body that does not parse) changes the stored
\* joke at none of its steps, so that the joke is the one held when it was
\* invoked (no other request having set it meanwhile), and sets the joke
\* error to 'Could not fetch a joke. Please try again.'
C9_FailedFetchKeepsJoke ==
    [][ /\ last'.step \in FetchFailureSteps =>
              /\ joke' = joke
              /\ jokeError' = "Could not fetch a joke. Please try again."
              /\ ~last'.f.dirty => joke' = last'.f.pre
        /\ last'.step \in {"fetch", "response"} => joke' = joke ]_vars

\* C9's case: a fetch has just failed on a status that is not a success,
\* after an earlier fetch had stored a joke.
C9_Witness ==
    /\ last.step = "notOk"
    /\ joke = "J1"
    /\ last.f.pre = "J1"
    /\ jokeError = JokeErrorMsg

\* C10: every fetchJoke invocation that settles, in success or in any
\* failure, sets the busy flag to false; the flag is false whenever no
\* fetch is in flight; and, every request settling in the end, a flag that
\* is true is false later.
C10_BusyEndsFalse ==
    /\ [][ last'.step \in (FetchFailureSteps \cup {"joke"}) => ~jokeLoading' ]_vars
    /\ [](fetches = <<>> => ~jokeLoading)
    /\ (jokeLoading ~> ~jokeLoading)

\* C10's case: a request has just settled on a body that does not parse,
\* the last in flight, and the flag is false.
C10_Witness ==
    /\ last.step = "badBody"
    /\ fetches = <<>>
    /\ ~jokeLoading

\* C11: when fetches overlap, the response that resolves last wins: once
\* every request has settled, a last response that succeeded leaves the joke
\* set and the error cleared, and a last response that failed leaves the
\* fixed error message.
C11_LastResponseWins ==
    fetches = <<>> =>
        /\ last.step = "joke" => (joke # Null /\ jokeError = NoError)
        /\ last.step \in FetchFailureSteps => jokeError = JokeErrorMsg

\* the slot value s holds the JSON text of a list
HoldsList(s) == s.present /\ JSONparse(s.text).ok /\ JSONparse(s.text).val.t = "arr"
ListOf(s) == JSONparse(s.text).val.v
IsPrefix(a, b) == Len(a) <= Len(b) /\ SubSeq(b, 1, Len(a)) = a

\* C12: when the slot held a list L at mount and clear has never been
\* invoked, the slot holds at every moment a list that starts with L: no
\* write, not even that of an add made while load is pending, drops the
\* notes that were persisted.
C12_WritesExtendPersisted ==
    (HoldsList(slot0) /\ ~cleared) =>
        (HoldsList(slot) /\ IsPrefix(ListOf(slot0), ListOf(slot)))

\* C13 as claimed: every invocation of add, whatever the input field holds,
\* leaves the notes error empty.
C13_EveryAddClearsError ==
    [][ last'.step = "add" => notesError' = NoError ]_vars

\* C13: every invocation of fetchJoke leaves the joke error empty, and every
\* invocation of clear, or of add with an input that is not blank, leaves
\* the notes error empty, in the handler's first step, before any I/O
\* settles; an add with a blank input leaves the notes error as it was.
C13_InvocationClearsError ==
    [][ /\ last'.step = "fetch" => jokeError' = NoError
        /\ last'.step = "clear" => notesError' = NoError
        /\ (last'.step = "add" /\ ~IsBlank(noteInput)) => notesError' = NoError
        /\ (last'.step = "add" /\ IsBlank(noteInput)) => notesError' = notesError ]_vars

\* an add that is not blank has just cleared a notes error while an earlier
\* failure of a request still shows
C13_Witness ==
    /\ last.step = "add"
    /\ ops > 0 /\ lastAdd = ops /\ Len(writes) > 0
    /\ notesError = NoError
    /\ failed
    /\ jokeError = JokeErrorMsg

\* C14: the joke busy flag is true exactly while at least one request has
\* been issued and has not settled yet, overlapping requests included.
C14_BusyIffInFlight == jokeLoading <=> (fetches # <<>>)

GoodNote(x) ==
    /\ x.t = "str"
    /\ x.v # <<>>
    /\ Head(x.v) # SPACE /\ Last(x.v) # SPACE
GoodList(ns) == \A i \in 1..Len(ns) : GoodNote(ns[i])

\* C16 as claimed: whatever the slot held at mount, every element of the
\* list in memory is a non-empty string without surrounding whitespace.
C16_AllNotesTrimmed == GoodList(notes)

\* C16: when the slot at mount is absent, holds no list, or holds a list of
\* non-empty strings without surrounding whitespace, every element of the
\* list in memory is such a string in every reachable state.
C16_NotesTrimmedFromCleanSlot ==
    (HoldsList(slot0) => GoodList(ListOf(slot0))) => GoodList(notes)

\* a loaded note followed by a note added from a text typed with blanks around it
C16_Witness ==
    /\ HoldsList(slot0) /\ ListOf(slot0) # <<>> /\ GoodList(ListOf(slot0))
    /\ loadPc = "done"
    /\ last.step = "add"
    /\ Len(notes) = Len(ListOf(slot0)) + 1
    /\ IsPrefix(ListOf(slot0), notes)

\* the steps of the joke fetcher, and those of the notes store
JokeSteps == {"fetch", "response", "notOk", "rejected", "badBody", "joke"}
NoteSteps == {"getItem", "loaded", "type", "add", "clear",
              "saved", "saveFailed", "removed", "removeFailed"}

\* C17: fetchJoke and the settling of its request never change the note
\* list, the note input, the notes error, the notes busy flag or the slot;
\* load, add, clear and the settling of their storage operations never
\* change the joke, the joke error or the joke busy flag.
C17_InteractionsShareNoData ==
    [][ /\ last'.step \in JokeSteps =>
               UNCHANGED <<notes, noteInput, notesError, notesLoading, slot>>
        /\ last'.step \in NoteSteps =>
               UNCHANGED <<joke, jokeError, jokeLoading>> ]_vars

\* a save has just failed while a request is in flight and a joke is held
C17_Witness ==
    /\ last.step = "saveFailed"
    /\ notes # <<>> /\ notesError = SaveErrorMsg
    /\ fetches # <<>> /\ jokeLoading /\ joke # Null

\* C18: once every storage operation has settled, the notes error is set
\* only if the operation of the notes action invoked last (load, when no
\* add or clear was invoked) failed or found corrupted data: the failure of
\* an earlier operation leaves no stale error behind.
C18_ErrorIsOfLatestAction ==
    (NotesQuiet /\ notesError # NoError) => newestFailed

\* C19: the note list (or its "No notes yet" placeholder) is rendered
\* exactly when the notes busy flag is false and the notes error is empty;
\* of the spinner, the error line and the list exactly one is rendered; and
\* while a notes error is set no note of the list in memory is displayed.
C19_NotesRenderRule ==
    /\ NotesListShown <=> (~notesLoading /\ notesError = NoError)
    /\ Cardinality({v \in {"spinner", "error", "list"} :
           \/ v = "spinner" /\ NotesSpinnerShown
           \/ v = "error" /\ NotesErrorShown
           \/ v = "list" /\ NotesListShown}) = 1
    /\ NoNotesYetShown => NotesListShown
    /\ notesError # NoError => (~NotesListShown /\ NotesDisplayed = <<>>)

\* a save has just failed: its note is in the list, and the error line is
\* rendered in the place of the list
C19_Witness ==
    /\ last.step = "saveFailed"
    /\ notes # <<>> /\ Last(notes) = last.w.note
    /\ notesError = SaveErrorMsg
    /\ NotesErrorShown /\ NotesDisplayed = <<>>
====
